---- MODULE Spec2Model ----
(***************************************************************************)
(* Texture-Critter: the Texture / EmptyTexture pixel grids, the Shape       *)
(* neighbourhoods (texture.py) and the brute-force best-match fill loop     *)
(* expand (expand.py), as a state machine.                                  *)
(*                                                                          *)
(* Locations and shifts are pairs <<x, y>> with 0-based coordinates, as in  *)
(* the code.  A grid is a record                                            *)
(*   [class, w, h : pic.size, mode : pic.mode, bpp, pixels, valid]          *)
(* whose pixels and valid are functions on the locations of the grid (the   *)
(* code's two-dimensional lists addressed as [x][y]); pcols and vcols name  *)
(* the inner list object that column x of pixels and of valid refers to.    *)
(***************************************************************************)
EXTENDS Integers, Sequences, FiniteSets, TLC

\* ------------------------------------------------------------------ bounds
\* largest width and height of the source image
MaxSW == 2
MaxSH == 2
\* largest width and height of the target image
MaxTW == 2
MaxTH == 2
\* largest radius of a Shape (args.nsize)
MaxRadius == 1
\* number of distinct colours that occur in an image
NumColours == 2

VARIABLES
    source,     \* the source Texture
    target,     \* the target Texture (mutated in place by expand)
    near,       \* the Shape: its class, its radius and its list shift
    pc,         \* position inside expand
    comp,       \* the pixel comparison function chosen (3, 4 or 0 = generic)
    ti,         \* 1-based position of tloc in tlist
    ci,         \* the code's ci, 0-based count of source pixels scored
    nearer,     \* neighbourhood trimmed around tloc
    nearest,    \* nearer trimmed around the last sloc scored
    choices,    \* list of (weight, pixel) tuples
    sel,        \* position in choices of the tuple min() returned (0 = none)
    newval,     \* the value picked for tloc
    err,        \* the exception that ended expand ("none" while running)
    result,     \* the Image expand returned (NoImage until then)
    other,      \* the state of a second, independent run of expand
    call        \* the last direct call of a method or function, and its outcome

vars == <<source, target, near, pc, comp, ti, ci, nearer, nearest, choices, sel,
          newval, err, result, other, call>>

\* ------------------------------------------------------- python built-ins
\* range(lo, hi) as a list
Range(lo, hi) == [k \in 1..(hi - lo) |-> lo + k - 1]

\* tuple < tuple: lexicographic, a proper prefix is smaller
RECURSIVE TupleLessFrom(_, _, _)
TupleLessFrom(p, q, i) ==
    IF i > Len(p) THEN i <= Len(q)
    ELSE IF i > Len(q) THEN FALSE
    ELSE IF p[i] # q[i] THEN p[i] < q[i]
    ELSE TupleLessFrom(p, q, i + 1)

TupleLess(p, q) == TupleLessFrom(p, q, 1)

\* ---------------------------------------------------------------- Shapes
\* [(i, j) for j in js] for a fixed i
SquareRow(i, js) == [k \in 1..Len(js) |-> <<i, js[k]>>]

RECURSIVE SquareRows(_, _, _)
SquareRows(is, js, k) ==
    IF k > Len(is) THEN << >>
    ELSE SquareRow(is[k], js) \o SquareRows(is, js, k + 1)

\* SquareShift with range(-radius, radius) for j
SquareShiftShort(radius) ==
    SquareRows(Range(-radius, radius + 1), Range(-radius, radius), 1)

\* SquareShape.__init__: i outer, j inner, both over range(-radius, radius+1)
SquareShift(radius) ==
    SquareRows(Range(-radius, radius + 1), Range(-radius, radius + 1), 1)

\* EllTest with i <= 0 on the row of the centre
EllTestWithCentre(i, j) == (j < 0) \/ (j = 0 /\ i <= 0)

\* the filter of the EllShape comprehension
EllTest(i, j) == (j < 0) \/ (j = 0 /\ i < 0)

\* [(i, j) for i in is if test] for a fixed j
EllRow(j, is) ==
    SelectSeq([k \in 1..Len(is) |-> <<is[k], j>>],
              LAMBDA s : EllTest(s[1], s[2]))

RECURSIVE EllRows(_, _, _)
EllRows(js, is, k) ==
    IF k > Len(js) THEN << >>
    ELSE EllRow(js[k], is) \o EllRows(js, is, k + 1)

\* EllShape.__init__: j outer over range(-radius, 1), i inner over
\* range(-radius, radius+1)
EllShift(radius) ==
    EllRows(Range(-radius, 1), Range(-radius, radius + 1), 1)

\* the Shape objects __main__ builds from args.nsize
SquareShape(radius) ==
    [class |-> "SquareShape", radius |-> radius, shift |-> SquareShift(radius)]
EllShape(radius) ==
    [class |-> "EllShape", radius |-> radius, shift |-> EllShift(radius)]

\* --------------------------------------------------------------- Texture
\* the locations of a w by h grid
Locs(w, h) == (0..(w - 1)) \X (0..(h - 1))

\* Texture.alpha_modes
AlphaModes == {"LA", "RGBA", "RGBa", "P"}

\* bytelist[i : i + bpp] as a tuple (i is 0-based)
Slice(bytelist, i, bpp) == [k \in 1..bpp |-> bytelist[i + k]]

\* Texture._pixelList: the flat position counter i advances by bpp with
\* y outer and x inner, so that pixlist[x][y] is the (x + y*w)-th pixel
PixelList(bytelist, w, h, bpp) ==
    [loc \in Locs(w, h) |-> Slice(bytelist, bpp * (loc[1] + loc[2] * w), bpp)]

\* "[... for _ in xrange(w)]": a fresh inner list for every x
Columns(w) == [x \in 0..(w - 1) |-> x]

\* "lst[x][y] = v" on a two-dimensional list: slot y of the inner list that
\* lst[x] refers to is rebound, and shows under every x that refers to it
Store(grid, cols, x, y, v) ==
    [loc \in DOMAIN grid |->
        IF cols[loc[1]] = cols[x] /\ loc[2] = y THEN v ELSE grid[loc]]

\* Texture.__init__ on a decoded image [mode, w, h, bytes] already in its
\* canonical mode
Texture(image) ==
    LET bpp == IF image.mode \in AlphaModes THEN 4 ELSE 3
    IN  [class |-> "Texture",
         w |-> image.w, h |-> image.h, mode |-> image.mode, bpp |-> bpp,
         pixels |-> PixelList(image.bytes, image.w, image.h, bpp),
         valid |-> [loc \in Locs(image.w, image.h) |-> TRUE],
         pcols |-> Columns(image.w), vcols |-> Columns(image.w)]

\* EmptyTexture.__init__
EmptyTexture(w, h, mode) ==
    LET bpp == IF mode \in AlphaModes THEN 4 ELSE 3
        colour == IF mode \in AlphaModes THEN <<0, 0, 0, 0>> ELSE <<0, 0, 0>>
    IN  [class |-> "EmptyTexture",
         w |-> w, h |-> h, mode |-> mode, bpp |-> bpp,
         pixels |-> [loc \in Locs(w, h) |-> colour],
         valid |-> [loc \in Locs(w, h) |-> FALSE],
         pcols |-> Columns(w), vcols |-> Columns(w)]

\* Texture._locTest
LocTest(tex, point, shift) ==
    /\ point[1] + shift[1] >= 0
    /\ point[1] + shift[1] < tex.w
    /\ point[2] + shift[2] >= 0
    /\ point[2] + shift[2] < tex.h

\* GoodShift without the look-up in valid
GoodShiftInBounds(tex, centre, shift, valid) ==
    LET point == <<centre[1] + shift[1], centre[2] + shift[2]>>
    IN  LocTest(tex, point, <<0, 0>>)

\* the test of the loop body of goodList
GoodShift(tex, centre, shift, valid) ==
    LET point == <<centre[1] + shift[1], centre[2] + shift[2]>>
    IN  LocTest(tex, point, <<0, 0>>) /\ valid[point]

\* Texture.goodList: the loop over neighbourhood, appending to ret
RECURSIVE GoodListFrom(_, _, _, _, _, _)
GoodListFrom(tex, centre, neighbourhood, valid, i, ret) ==
    IF i > Len(neighbourhood) THEN ret
    ELSE GoodListFrom(tex, centre, neighbourhood, valid, i + 1,
                      IF GoodShift(tex, centre, neighbourhood[i], valid)
                      THEN Append(ret, neighbourhood[i]) ELSE ret)

\* GoodList that returns the neighbourhood as it came
GoodListUntrimmed(tex, centre, neighbourhood, valid) == neighbourhood

GoodList(tex, centre, neighbourhood, valid) ==
    GoodListFrom(tex, centre, neighbourhood, valid, 1, << >>)

\* Texture.getPixel, where its assertion holds
GetPixel(tex, loc, shift) == tex.pixels[<<loc[1] + shift[1], loc[2] + shift[2]>>]

\* Texture.getPixel: the pixel, or the failure of its assertion
TextureGetPixel(tex, loc, shift) ==
    IF ~LocTest(tex, loc, shift) THEN [err |-> "AssertionError", val |-> << >>]
    ELSE [err |-> "none", val |-> GetPixel(tex, loc, shift)]

\* TextureSetPixel without the assertion on len(value)
TextureSetPixelAnyLength(tex, value, loc, shift) ==
    IF ~LocTest(tex, loc, shift)
    THEN [err |-> "AssertionError", tex |-> tex]
    ELSE [err |-> "none",
          tex |-> [tex EXCEPT !.pixels =
                      Store(tex.pixels, tex.pcols,
                            loc[1] + shift[1], loc[2] + shift[2], value)]]

\* Texture.setPixel: the grid after the call and the exception raised
TextureSetPixel(tex, value, loc, shift) ==
    IF ~LocTest(tex, loc, shift) \/ Len(value) # tex.bpp
    THEN [err |-> "AssertionError", tex |-> tex]
    ELSE [err |-> "none",
          tex |-> [tex EXCEPT !.pixels =
                      Store(tex.pixels, tex.pcols,
                            loc[1] + shift[1], loc[2] + shift[2], value)]]

\* a python list of length n accepts the indexes -n .. n-1
IndexInRange(i, n) == i >= -n /\ i < n

\* the 0-based slot that index i of a list of length n refers to
ListIndex(i, n) == IF i < 0 THEN i + n ELSE i

\* Texture.setValid: self.valid[loc[0]][loc[1]] = True, no test of loc
TextureSetValid(tex, loc) ==
    IF ~IndexInRange(loc[1], tex.w) \/ ~IndexInRange(loc[2], tex.h)
    THEN [err |-> "IndexError", tex |-> tex]
    ELSE [err |-> "none",
          tex |-> [tex EXCEPT !.valid =
                      Store(tex.valid, tex.vcols,
                            ListIndex(loc[1], tex.w), ListIndex(loc[2], tex.h),
                            TRUE)]]

\* ToImage with the pixels flattened column by column
ToImageByColumns(tex) ==
    LET n == tex.w * tex.h
        pixlist == [k \in 1..n |->
                       tex.pixels[<<(k - 1) \div tex.h, (k - 1) % tex.h>>]]
        Chain[k \in 0..n] == IF k = 0 THEN << >> ELSE Chain[k - 1] \o pixlist[k]
    IN  [mode |-> tex.mode, w |-> tex.w, h |-> tex.h, bytes |-> Chain[n]]

\* Texture.toImage: pixlist[x + y*sx] = pixels[x][y], then the tuples chained
ToImage(tex) ==
    LET n == tex.w * tex.h
        pixlist == [k \in 1..n |-> tex.pixels[<<(k - 1) % tex.w, (k - 1) \div tex.w>>]]
        Chain[k \in 0..n] == IF k = 0 THEN << >> ELSE Chain[k - 1] \o pixlist[k]
    IN  [mode |-> tex.mode, w |-> tex.w, h |-> tex.h, bytes |-> Chain[n]]


\* ---------------------------------------------------------------- expand
\* the outcome of a call: err is "none" or the exception raised
Ok(v) == [err |-> "none", val |-> v]
Raise(e) == [err |-> e, val |-> 0]

\* Sq without the multiplication
SqForgotten(n) == n

Sq(n) == n * n

\* compare: the generic comparison, asserts equal lengths
RECURSIVE CompareFrom(_, _, _, _)
CompareFrom(pix1, pix2, i, collect) ==
    IF i > Len(pix1) THEN collect
    ELSE CompareFrom(pix1, pix2, i + 1, collect + Sq(pix1[i] - pix2[i]))

Compare(pix1, pix2) ==
    IF Len(pix1) # Len(pix2) THEN Raise("AssertionError")
    ELSE Ok(CompareFrom(pix1, pix2, 1, 0))

\* compare3: reads channels 0..2 of both pixels, whatever their length
Compare3(pix1, pix2) ==
    IF Len(pix1) < 3 \/ Len(pix2) < 3 THEN Raise("IndexError")
    ELSE Ok(Sq(pix1[1] - pix2[1]) + Sq(pix1[2] - pix2[2]) + Sq(pix1[3] - pix2[3]))

\* Compare4 that leaves the alpha channel out of the sum
Compare4WithoutAlpha(pix1, pix2) ==
    IF Len(pix1) < 4 \/ Len(pix2) < 4 THEN Raise("IndexError")
    ELSE Ok(Sq(pix1[1] - pix2[1]) + Sq(pix1[2] - pix2[2]) + Sq(pix1[3] - pix2[3]))

\* compare4: reads channels 0..3 of both pixels
Compare4(pix1, pix2) ==
    IF Len(pix1) < 4 \/ Len(pix2) < 4 THEN Raise("IndexError")
    ELSE Ok(Sq(pix1[1] - pix2[1]) + Sq(pix1[2] - pix2[2])
            + Sq(pix1[3] - pix2[3]) + Sq(pix1[4] - pix2[4]))

\* the function expand binds to comp
ChooseComp(bpp) == IF bpp = 3 THEN 3 ELSE IF bpp = 4 THEN 4 ELSE 0

CallComp(c, pix1, pix2) ==
    IF c = 3 THEN Compare3(pix1, pix2)
    ELSE IF c = 4 THEN Compare4(pix1, pix2)
    ELSE Compare(pix1, pix2)

\* A weight is float('inf') or the float total/len(region); the quotient is
\* kept exact as num/den (the totals and lengths of the model are far below
\* the precision of a double, so the float comparison is the exact one).
Infinity == [inf |-> TRUE, num |-> 0, den |-> 1]
\* Quotient without float(): the integer division total/n of python 2
QuotientOfInts(total, n) == [inf |-> FALSE, num |-> total \div n, den |-> 1]

Quotient(total, n) == [inf |-> FALSE, num |-> total, den |-> n]

WeightEq(a, b) ==
    IF a.inf \/ b.inf THEN a.inf /\ b.inf
    ELSE a.num * b.den = b.num * a.den

WeightLess(a, b) ==
    IF a.inf THEN FALSE
    ELSE IF b.inf THEN TRUE
    ELSE a.num * b.den < b.num * a.den

\* compareRegion: the loop over region; an exception of getPixel (its
\* assertion) or of comp ends it
RECURSIVE RegionTotal(_, _, _, _, _, _, _, _)
RegionTotal(tex1, tex2, cen1, cen2, region, c, i, total) ==
    IF i > Len(region) THEN Ok(total)
    ELSE IF ~LocTest(tex1, cen1, region[i]) \/ ~LocTest(tex2, cen2, region[i])
    THEN Raise("AssertionError")
    ELSE LET d == CallComp(c, GetPixel(tex1, cen1, region[i]),
                              GetPixel(tex2, cen2, region[i]))
         IN  IF d.err # "none" THEN d
             ELSE RegionTotal(tex1, tex2, cen1, cen2, region, c, i + 1,
                              total + d.val)

CompareRegion(tex1, tex2, cen1, cen2, region, c) ==
    IF Len(region) = 0 THEN Ok(Infinity)
    ELSE LET t == RegionTotal(tex1, tex2, cen1, cen2, region, c, 1, 0)
         IN  IF t.err # "none" THEN t
             ELSE Ok(Quotient(t.val, Len(region)))

\* ChoiceLess with the tuple built as (pixel, weight)
ChoiceLessPixelFirst(c1, c2) ==
    IF c1.pix # c2.pix THEN TupleLess(c1.pix, c2.pix)
    ELSE WeightLess(c1.weight, c2.weight)

\* (weight, pixel) < (weight, pixel) as python compares tuples: the first
\* elements that differ decide
ChoiceLess(c1, c2) ==
    IF ~WeightEq(c1.weight, c2.weight) THEN WeightLess(c1.weight, c2.weight)
    ELSE TupleLess(c1.pix, c2.pix)

\* min(choices): the position of the tuple min returns; a later tuple
\* replaces the best so far only when it is strictly smaller
RECURSIVE MinFrom(_, _, _)
MinFrom(list, i, best) ==
    IF i > Len(list) THEN best
    ELSE MinFrom(list, i + 1, IF ChoiceLess(list[i], list[best]) THEN i ELSE best)

MinIndex(list) == MinFrom(list, 2, 1)

\* ScanLoc for lists built with x outer and y inner
ScanLocByColumns(tex, k) == <<(k - 1) \div tex.h, (k - 1) % tex.h>>

\* slist and tlist: all locations, y outer, x inner (k is 1-based)
ScanLoc(tex, k) == <<(k - 1) % tex.w, (k - 1) \div tex.w>>
SPoints == source.w * source.h
TPoints == target.w * target.h
tloc == ScanLoc(target, ti)
sloc == ScanLoc(source, ci + 1)

\* no direct call yet
NoCall == [op |-> "none", args |-> << >>, err |-> "none", ret |-> 0, before |-> 0]

\* no Image yet
NoImage == [mode |-> "none", w |-> 0, h |-> 0, bytes |-> << >>]

\* bytes per pixel of a PIL mode, as Image.frombytes expects them
ModeChannels(mode) == IF mode = "RGBA" THEN 4 ELSE 3

\* MorePixels that stops one target pixel early
MorePixelsShort == ti < TPoints

\* "for tloc in tlist": is there a target pixel left
MorePixels == ti <= TPoints

Fail(e) ==
    /\ pc' = "failed"
    /\ err' = e

\* expand, lines 111-135: mode conversion of target.pic, choice of comp
Start ==
    /\ pc = "start"
    /\ target' = IF target.mode # source.mode
                 THEN [target EXCEPT !.mode = source.mode]
                 ELSE target
    /\ comp' = ChooseComp(source.bpp)
    /\ ti' = 1
    /\ pc' = "pixel"
    /\ UNCHANGED <<call, other, source, near, ci, nearer, nearest, choices, sel,
                   newval, err, result>>

\* head of the loop over tlist: trim the neighbourhood, clear the choices
NextPixel ==
    /\ pc = "pixel"
    /\ MorePixels
    /\ nearer' = GoodList(target, tloc, near.shift, target.valid)
    /\ choices' = << >>
    /\ ci' = 0
    /\ pc' = "score"
    /\ UNCHANGED <<call, other, source, target, near, comp, ti, nearest, sel,
                   newval, err, result>>

\* body of the loop over slist
Score ==
    /\ pc = "score"
    /\ ci < SPoints
    /\ LET region == GoodList(source, sloc, nearer, source.valid)
           weight == CompareRegion(source, target, sloc, tloc, region, comp)
       IN  /\ nearest' = region
           /\ IF weight.err # "none"
              THEN /\ Fail(weight.err)
                   /\ UNCHANGED <<choices, ci>>
              ELSE /\ choices' = Append(choices,
                          [weight |-> weight.val,
                           pix |-> GetPixel(source, sloc, <<0, 0>>)])
                   /\ ci' = ci + 1
                   /\ UNCHANGED <<pc, err>>
    /\ UNCHANGED <<call, other, source, target, near, comp, ti, nearer, sel, newval,
                   result>>

\* Pick with a random choice among the tuples of smallest weight
PickAnyMin ==
    /\ pc = "score"
    /\ ci = SPoints
    /\ Len(choices) > 0
    /\ \E i \in 1..Len(choices) :
          /\ \A j \in 1..Len(choices) :
                ~WeightLess(choices[j].weight, choices[i].weight)
          /\ sel' = i
          /\ newval' = choices[i].pix
    /\ pc' = "setPixel"
    /\ UNCHANGED <<call, other, source, target, near, comp, ti, ci, nearer, nearest,
                   choices, err, result>>

\* Pick that raises the flag of tloc at once, before the value is written
PickAndFlag ==
    /\ pc = "score"
    /\ ci = SPoints
    /\ Len(choices) > 0
    /\ sel' = MinIndex(choices)
    /\ newval' = choices[sel'].pix
    /\ target' = TextureSetValid(target, tloc).tex
    /\ pc' = "setPixel"
    /\ UNCHANGED <<call, other, source, near, comp, ti, ci, nearer, nearest,
                   choices, err, result>>

\* newval = min(choices)[1]
Pick ==
    /\ pc = "score"
    /\ ci = SPoints
    /\ IF Len(choices) = 0
       THEN /\ Fail("ValueError")
            /\ UNCHANGED <<sel, newval>>
       ELSE /\ sel' = MinIndex(choices)
            /\ newval' = choices[sel'].pix
            /\ pc' = "setPixel"
            /\ UNCHANGED err
    /\ UNCHANGED <<call, other, source, target, near, comp, ti, ci, nearer, nearest,
                   choices, result>>

\* SetPixel that writes to the source grid
SetPixelOnSource ==
    /\ pc = "setPixel"
    /\ LET set == TextureSetPixel(source, newval, tloc, <<0, 0>>)
       IN  IF set.err # "none"
           THEN /\ Fail(set.err)
                /\ UNCHANGED source
           ELSE /\ source' = set.tex
                /\ pc' = "setValid"
                /\ UNCHANGED err
    /\ UNCHANGED <<call, other, target, near, comp, ti, ci, nearer, nearest,
                   choices, sel, newval, result>>

\* target.setPixel(newval, tloc)
SetPixel ==
    /\ pc = "setPixel"
    /\ LET set == TextureSetPixel(target, newval, tloc, <<0, 0>>)
       IN  IF set.err # "none"
           THEN /\ Fail(set.err)
                /\ UNCHANGED target
           ELSE /\ target' = set.tex
                /\ pc' = "setValid"
                /\ UNCHANGED err
    /\ UNCHANGED <<call, other, source, near, comp, ti, ci, nearer, nearest,
                   choices, sel, newval, result>>

\* target.setValid(tloc), then on to the next tloc
SetValid ==
    /\ pc = "setValid"
    /\ LET set == TextureSetValid(target, tloc)
       IN  IF set.err # "none"
           THEN /\ Fail(set.err)
                /\ UNCHANGED <<target, ti>>
           ELSE /\ target' = set.tex
                /\ ti' = ti + 1
                /\ pc' = "pixel"
                /\ UNCHANGED err
    /\ UNCHANGED <<call, other, source, near, comp, ci, nearer, nearest, choices,
                   sel, newval, result>>

\* return target.toImage()
Return ==
    /\ pc = "pixel"
    /\ ~MorePixels
    /\ LET image == ToImage(target)
       IN  IF Len(image.bytes) # ModeChannels(image.mode) * image.w * image.h
           THEN /\ Fail("ValueError")
                /\ UNCHANGED result
           ELSE /\ result' = image
                /\ pc' = "done"
                /\ UNCHANGED err
    /\ UNCHANGED <<call, other, source, target, near, comp, ti, ci, nearer, nearest,
                   choices, sel, newval>>

\* ------------------------------------------------------------ two runs
\* Two independent runs of expand on equal inputs: each has its own target
\* object and its own locals, the source and the shape are only read.  The
\* variables hold the run that is executing, other holds the run that waits.
RunState ==
    [target |-> target, pc |-> pc, comp |-> comp, ti |-> ti, ci |-> ci,
     nearer |-> nearer, nearest |-> nearest, choices |-> choices, sel |-> sel,
     newval |-> newval, err |-> err, result |-> result]

\* how far a run has come: 0 before its first step, then the position of
\* the target pixel it works on, past the last one when it has ended
Progress(run) ==
    IF run.pc = "start" THEN 0
    ELSE IF run.pc \in {"done", "failed"} THEN run.target.w * run.target.h + 2
    ELSE run.ti

\* the executing run stands between two target pixels, or has ended, ahead
\* of the waiting run
MustYield ==
    /\ pc \in {"pixel", "done", "failed"}
    /\ Progress(other) < Progress(RunState)

\* the waiting run takes over
Switch ==
    /\ MustYield
    /\ other' = RunState
    /\ target' = other.target
    /\ pc' = other.pc
    /\ comp' = other.comp
    /\ ti' = other.ti
    /\ ci' = other.ci
    /\ nearer' = other.nearer
    /\ nearest' = other.nearest
    /\ choices' = other.choices
    /\ sel' = other.sel
    /\ newval' = other.newval
    /\ err' = other.err
    /\ result' = other.result
    /\ UNCHANGED <<source, near, call>>

\* ------------------------------------------------------------ the inputs
\* the colours of the decoded images: colour k of a mode
Colour(mode, k) ==
    IF mode \in AlphaModes THEN <<NumColours - 1 - k, k, 0, k>>
    ELSE <<NumColours - 1 - k, k, 0>>

\* a decoded image whose pixel (x, y) has colour (a*x + b*y + c) mod NumColours
Pattern(mode, w, h, a, b, c) ==
    LET col(k) == Colour(mode, (a * ((k - 1) % w) + b * ((k - 1) \div w) + c)
                                % NumColours)
        Chain[k \in 0..(w * h)] == IF k = 0 THEN << >> ELSE Chain[k - 1] \o col(k)
    IN  [mode |-> mode, w |-> w, h |-> h, bytes |-> Chain[w * h]]

Modes == {"RGB", "RGBA"}

SourceImages ==
    {Pattern(m, w, h, a, b, c) :
        m \in Modes, w \in 1..MaxSW, h \in 1..MaxSH,
        a \in 0..1, b \in 0..1, c \in 0..1}

TargetImages ==
    {Pattern(m, w, h, a, a, 0) :
        m \in Modes, w \in 1..MaxTW, h \in 1..MaxTH, a \in 0..1}

Targets ==
    {Texture(image) : image \in TargetImages}
    \cup {EmptyTexture(w, h, m) : m \in Modes, w \in 1..MaxTW, h \in 1..MaxTH}

Shapes ==
    {SquareShape(r) : r \in 0..MaxRadius} \cup {EllShape(r) : r \in 0..MaxRadius}

\* the state in which __main__ calls expand(source, target, shape)
Init ==
    /\ source \in {Texture(image) : image \in SourceImages}
    /\ target \in Targets
    /\ near \in Shapes
    /\ pc = "start"
    /\ comp = 0
    /\ ti = 1
    /\ ci = 0
    /\ nearer = << >>
    /\ nearest = << >>
    /\ choices = << >>
    /\ sel = 0
    /\ newval = << >>
    /\ err = "none"
    /\ result = NoImage
    /\ call = NoCall
    /\ other = RunState

Next ==
    \/ Start
    \/ NextPixel
    \/ Score
    \/ Pick
    \/ SetPixel
    \/ SetValid
    \/ Return

Spec == Init /\ [][Next]_vars

\* two runs in turn, one target pixel at a time
NextTwoRuns ==
    \/ Switch
    \/ ~MustYield /\ Next

SpecTwoRuns == Init /\ [][NextTwoRuns]_vars

\* ------------------------------------------------- the comparisons alone
\* the locals of expand, before it is called
NoRun ==
    /\ comp = 0
    /\ ti = 1
    /\ ci = 0
    /\ nearer = << >>
    /\ nearest = << >>
    /\ choices = << >>
    /\ sel = 0
    /\ newval = << >>
    /\ err = "none"
    /\ result = NoImage

\* the values of a channel: the ends of the byte range and a neighbour
Bytes == {0, 1, 255}

\* the pixels handed to the comparisons: all 3- and 4-channel pixels over
\* Bytes, and the tuples of expand_tests.py
ComparePixels ==
    [1..3 -> Bytes] \cup [1..4 -> Bytes]
    \cup {<<1, 2, 3>>, <<4, 5, 6>>, <<0, 0>>, <<3, 4>>, <<1, 1, 1, 1>>,
          <<-1, -1, -1, -1>>, <<1, 3, 5>>, <<3, 5, 7>>, <<1, 3, 5, 7>>,
          <<3, 5, 7, 9>>}

CompName(c) == IF c = 3 THEN "compare3" ELSE IF c = 4 THEN "compare4" ELSE "compare"

\* a module that imports expand.py and has called nothing yet
InitCompare ==
    /\ source = Texture(Pattern("RGB", 1, 1, 0, 0, 0))
    /\ target = EmptyTexture(1, 1, "RGB")
    /\ near = EllShape(0)
    /\ pc = "compare"
    /\ NoRun
    /\ call = NoCall
    /\ other = RunState

\* one call compare(pix1, pix2), compare3(pix1, pix2) or compare4(pix1, pix2)
CallCompare ==
    /\ pc = "compare"
    /\ call.op = "none"
    /\ \E c \in {0, 3, 4}, pix1 \in ComparePixels, pix2 \in ComparePixels :
          LET r == CallComp(c, pix1, pix2)
          IN  call' = [op |-> CompName(c), args |-> <<pix1, pix2>>,
                       err |-> r.err, ret |-> r.val, before |-> 0]
    /\ UNCHANGED <<source, target, near, pc, comp, ti, ci, nearer, nearest,
                   choices, sel, newval, err, result, other>>

NextCompare == CallCompare

SpecCompare == InitCompare /\ [][NextCompare]_vars

\* ------------------------------------------------ the grid methods alone
\* decoded images for the grids that are called directly
ApiImages ==
    {Pattern(m, w, h, a, b, 0) :
        m \in Modes, w \in 1..MaxTW, h \in 1..MaxTH, a \in 0..1, b \in 0..1}

\* a grid on which expand has committed colour 1 to its first k pixels
Filled(tex, k) ==
    [tex EXCEPT
        !.pixels = [loc \in Locs(tex.w, tex.h) |->
                       IF loc[1] + loc[2] * tex.w < k
                       THEN Colour(tex.mode, 1) ELSE tex.pixels[loc]],
        !.valid = [loc \in Locs(tex.w, tex.h) |->
                       loc[1] + loc[2] * tex.w < k \/ tex.valid[loc]]]

\* the grids called: built by Texture, built by EmptyTexture, and the
\* latter partly filled
ApiGrids ==
    {Texture(image) : image \in ApiImages}
    \cup UNION {{Filled(EmptyTexture(w, h, m), k) : k \in 0..(w * h)} :
                   m \in Modes, w \in 1..MaxTW, h \in 1..MaxTH}

\* the coordinates handed to the methods: the corners of the grid, the
\* first positions past them and the negative indexes of a python list
ApiCoords(n) == {-n - 1, -n, -1, 0, n - 1, n}
ApiLocs(tex) == ApiCoords(tex.w) \X ApiCoords(tex.h)
ApiShifts == {<<0, 0>>, <<1, 0>>, <<0, -1>>}
ApiValues == {Colour(m, k) : m \in Modes, k \in 0..(NumColours - 1)}

\* a grid fresh from its constructor or partly filled, nothing called yet
InitApi ==
    /\ source = Texture(Pattern("RGB", 1, 1, 0, 0, 0))
    /\ target \in ApiGrids
    /\ near = EllShape(0)
    /\ pc = "api"
    /\ NoRun
    /\ call = NoCall
    /\ other = RunState

CanCall == pc = "api" /\ call.op = "none"

\* target.getPixel(loc, shift)
CallGetPixel ==
    /\ CanCall
    /\ \E loc \in ApiLocs(target), shift \in ApiShifts :
          LET r == TextureGetPixel(target, loc, shift)
          IN  call' = [op |-> "getPixel", args |-> [loc |-> loc, shift |-> shift],
                       err |-> r.err, ret |-> r.val, before |-> target]
    /\ UNCHANGED <<source, target, near, pc, comp, ti, ci, nearer, nearest,
                   choices, sel, newval, err, result, other>>

\* target.setPixel(value, loc, shift)
CallSetPixel ==
    /\ CanCall
    /\ \E value \in ApiValues, loc \in ApiLocs(target), shift \in ApiShifts :
          LET r == TextureSetPixel(target, value, loc, shift)
          IN  /\ target' = r.tex
              /\ call' = [op |-> "setPixel",
                          args |-> [value |-> value, loc |-> loc, shift |-> shift],
                          err |-> r.err, ret |-> 0, before |-> target]
    /\ UNCHANGED <<source, near, pc, comp, ti, ci, nearer, nearest, choices,
                   sel, newval, err, result, other>>

\* target.setValid(loc)
CallSetValid ==
    /\ CanCall
    /\ \E loc \in ApiLocs(target) :
          LET r == TextureSetValid(target, loc)
          IN  /\ target' = r.tex
              /\ call' = [op |-> "setValid", args |-> [loc |-> loc],
                          err |-> r.err, ret |-> 0, before |-> target]
    /\ UNCHANGED <<source, near, pc, comp, ti, ci, nearer, nearest, choices,
                   sel, newval, err, result, other>>

\* target.goodList(centre, shape.shift, target.valid)
CallGoodList ==
    /\ CanCall
    /\ \E centre \in ApiLocs(target), shape \in Shapes :
          call' = [op |-> "goodList",
                   args |-> [centre |-> centre, neighbourhood |-> shape.shift],
                   err |-> "none",
                   ret |-> GoodList(target, centre, shape.shift, target.valid),
                   before |-> target]
    /\ UNCHANGED <<source, target, near, pc, comp, ti, ci, nearer, nearest,
                   choices, sel, newval, err, result, other>>

\* target._locTest(point, shift)
CallLocTest ==
    /\ CanCall
    /\ \E point \in ApiLocs(target), shift \in ApiShifts :
          call' = [op |-> "_locTest",
                   args |-> [point |-> point, shift |-> shift],
                   err |-> "none", ret |-> LocTest(target, point, shift),
                   before |-> target]
    /\ UNCHANGED <<source, target, near, pc, comp, ti, ci, nearer, nearest,
                   choices, sel, newval, err, result, other>>

\* target.toImage()
CallToImage ==
    /\ CanCall
    /\ LET image == ToImage(target)
       IN  call' = [op |-> "toImage", args |-> << >>,
                    err |-> IF Len(image.bytes)
                                 # ModeChannels(image.mode) * image.w * image.h
                            THEN "ValueError" ELSE "none",
                    ret |-> image, before |-> target]
    /\ UNCHANGED <<source, target, near, pc, comp, ti, ci, nearer, nearest,
                   choices, sel, newval, err, result, other>>

NextApi ==
    \/ CallGetPixel
    \/ CallSetPixel
    \/ CallSetValid
    \/ CallGoodList
    \/ CallLocTest
    \/ CallToImage

SpecApi == InitApi /\ [][NextApi]_vars


\* =================================================================== claims
SourceLocs == Locs(source.w, source.h)
TargetLocs == Locs(target.w, target.h)
Running == pc \in {"score", "setPixel", "setValid"}

\* the final comparison context of source pixel s at the current tloc, and
\* the score compareRegion gives s over it
FinalContext(s) ==
    GoodList(source, s, GoodList(target, tloc, near.shift, target.valid),
             source.valid)
ScoreAt(s) ==
    CompareRegion(source, target, s, tloc, FinalContext(s), comp).val

\* C1: the value expand is about to commit to tloc is the value of a source
\* pixel whose score is the minimum over all source pixels (no source pixel
\* scores strictly less), and that value is what setPixel writes to tloc.
C1_MinScoreCommitted ==
    /\ pc = "setPixel" =>
          \E s \in SourceLocs :
              /\ source.pixels[s] = newval
              /\ \A s2 \in SourceLocs : ~WeightLess(ScoreAt(s2), ScoreAt(s))
    /\ pc = "setValid" => target.pixels[tloc] = newval

\* a commit where a source pixel of smaller colour lost on its finite score
C1_Witness ==
    /\ pc = "setValid"
    /\ target.pixels[tloc] = newval
    /\ \E i \in 1..Len(choices) :
          /\ ~choices[i].weight.inf
          /\ WeightLess(choices[sel].weight, choices[i].weight)
          /\ TupleLess(choices[i].pix, newval)

\* the first position, in the scan order of the source, of a smallest weight
FirstMin ==
    CHOOSE i \in 1..Len(choices) :
        /\ \A j \in 1..Len(choices) :
              ~WeightLess(choices[j].weight, choices[i].weight)
        /\ \A j \in 1..(i - 1) :
              WeightLess(choices[i].weight, choices[j].weight)

\* C2: among the source pixels that tie for the smallest score, expand
\* commits the value of the one that comes first in the row-major scan of
\* the source.
C2_StableFirstMatch ==
    pc = "setPixel" => newval = source.pixels[ScanLoc(source, FirstMin)]

\* C3: once the mode conversion at the head of expand is done, the target
\* has the channel count of the source in its bpp and in every pixel tuple,
\* every value handed to setPixel has len(value) = target.bpp, and expand
\* does not fail.
C3_TargetConverted ==
    /\ pc # "start" =>
          /\ target.bpp = source.bpp
          /\ \A loc \in TargetLocs : Len(target.pixels[loc]) = source.bpp
    /\ pc = "setPixel" => Len(newval) = target.bpp
    /\ err = "none"

\* C4: expand visits the target pixels in row-major order, each once, never
\* fails, and has marked every target pixel valid when it returns.
C4_ScanOrderTermination ==
    /\ err = "none"
    /\ pc # "failed"
    /\ Running =>
          /\ ti \in 1..TPoints
          /\ \A k \in 1..(ti - 1) : target.valid[ScanLoc(target, k)]
    /\ pc = "done" =>
          /\ ti = TPoints + 1
          /\ \A loc \in TargetLocs : target.valid[loc]

\* is shift o, taken from centre, inside the grid and valid
KeepShift(tex, centre, valid, o) ==
    /\ <<centre[1] + o[1], centre[2] + o[2]>> \in Locs(tex.w, tex.h)
    /\ valid[<<centre[1] + o[1], centre[2] + o[2]>>]

InBounds(tex, centre, o) ==
    <<centre[1] + o[1], centre[2] + o[2]>> \in Locs(tex.w, tex.h)

\* C5: goodList returns exactly the shifts of its neighbourhood that land
\* inside the grid on a valid pixel, in the order of the neighbourhood; with
\* an all-valid mask that is every in-bounds shift, with an all-invalid mask
\* the empty list.
C5_GoodListExact ==
    /\ pc \in {"score", "setPixel"} =>
          /\ nearer = SelectSeq(near.shift,
                         LAMBDA o : KeepShift(target, tloc, target.valid, o))
          /\ (\A loc \in TargetLocs : target.valid[loc]) =>
                nearer = SelectSeq(near.shift,
                                   LAMBDA o : InBounds(target, tloc, o))
          /\ (\A loc \in TargetLocs : ~target.valid[loc]) => nearer = << >>
    /\ (pc = "score" /\ ci > 0) =>
          /\ nearest = SelectSeq(nearer,
                LAMBDA o : KeepShift(source, ScanLoc(source, ci), source.valid, o))
          /\ (\A loc \in SourceLocs : source.valid[loc]) =>
                nearest = SelectSeq(nearer,
                             LAMBDA o : InBounds(source, ScanLoc(source, ci), o))

\* a trimmed neighbourhood that kept a shift, dropped one that leaves the grid
\* and dropped one that lands on a pixel not yet valid
C5_Witness ==
    /\ pc = "score"
    /\ nearer # << >>
    /\ \E k \in 1..Len(near.shift) : ~InBounds(target, tloc, near.shift[k])
    /\ \E k \in 1..Len(near.shift) :
          /\ InBounds(target, tloc, near.shift[k])
          /\ ~KeepShift(target, tloc, target.valid, near.shift[k])


\* has every source pixel been scored at tloc, each over an empty context
AllEmpty ==
    /\ Len(choices) = SPoints
    /\ \A i \in 1..Len(choices) : choices[i].weight.inf

\* C6: a source pixel whose final context is empty is not the one selected
\* when some source pixel has a non-empty final context; and when they are
\* all empty expand still selects a candidate and commits its value instead
\* of failing.
C6_EmptyContextLast ==
    /\ pc = "setPixel" =>
          /\ sel \in 1..SPoints
          /\ newval = source.pixels[ScanLoc(source, sel)]
          /\ (\E s \in SourceLocs : FinalContext(s) # << >>) =>
                FinalContext(ScanLoc(source, sel)) # << >>
    /\ pc = "failed" => ~AllEmpty

\* the shifts of a list, as a set
ShiftSet(shift) == {shift[k] : k \in 1..Len(shift)}

\* C7: when expand has returned from a run on a blank target with the
\* causal-ell shape, every target pixel is valid and holds the value of some
\* source pixel; with a source that is v everywhere the target is v
\* everywhere.
C7_GenerativeResult ==
    (pc = "done" /\ target.class = "EmptyTexture" /\ near.class = "EllShape") =>
        \A loc \in TargetLocs :
            /\ target.valid[loc]
            /\ \E s \in SourceLocs : target.pixels[loc] = source.pixels[s]
            /\ \A s \in SourceLocs :
                  (\A s2 \in SourceLocs : source.pixels[s2] = source.pixels[s])
                      => target.pixels[loc] = source.pixels[s]

\* a finished generative run from a single-colour source of several pixels
\* onto a larger blank target
C7_Witness ==
    /\ pc = "done"
    /\ target.class = "EmptyTexture"
    /\ near.class = "EllShape"
    /\ near.radius >= 1
    /\ SPoints >= 2
    /\ target.w = 2 * source.w
    /\ target.h >= 2
    /\ \A s \in SourceLocs : source.pixels[s] = source.pixels[<<0, 0>>]
    /\ source.pixels[<<0, 0>>] # <<0, 0, 0>>
    /\ \A loc \in TargetLocs : target.pixels[loc] = source.pixels[<<0, 0>>]

C9_EllShape ==
    near.class = "EllShape" =>
        LET r == near.radius
        IN  /\ Len(near.shift) = r * (2 * r + 1) + r
            /\ Cardinality(ShiftSet(near.shift)) = Len(near.shift)
            /\ ShiftSet(near.shift) =
                  {o \in (-r..r) \X (-r..r) : o[2] < 0 \/ (o[2] = 0 /\ o[1] < 0)}
            /\ <<0, 0>> \notin ShiftSet(near.shift)
            /\ r = 0 => near.shift = << >>

\* an EllShape of positive radius in use by expand
C9_Witness ==
    /\ near.class = "EllShape"
    /\ near.radius >= 1
    /\ <<1, -1>> \in ShiftSet(near.shift)
    /\ <<-1, 0>> \in ShiftSet(near.shift)
    /\ pc = "score"

\* C10: SquareShape(radius).shift holds (2*radius+1)^2 distinct shifts,
\* exactly the (dx, dy) of [-radius, radius]^2, (0, 0) among them;
\* SquareShape(0) is exactly [(0, 0)].
C10_SquareShape ==
    near.class = "SquareShape" =>
        LET r == near.radius
        IN  /\ Len(near.shift) = (2 * r + 1) * (2 * r + 1)
            /\ Cardinality(ShiftSet(near.shift)) = Len(near.shift)
            /\ ShiftSet(near.shift) = (-r..r) \X (-r..r)
            /\ <<0, 0>> \in ShiftSet(near.shift)
            /\ r = 0 => near.shift = <<(<<0, 0>>)>>

\* a SquareShape of positive radius in use by expand
C10_Witness ==
    /\ near.class = "SquareShape"
    /\ near.radius >= 1
    /\ <<1, 1>> \in ShiftSet(near.shift)
    /\ pc = "score"

\* the sum over the channels i of (a[i] - b[i])^2
SumOfSquares(a, b) ==
    LET S[i \in 0..Len(a)] ==
            IF i = 0 THEN 0 ELSE S[i - 1] + (a[i] - b[i]) * (a[i] - b[i])
    IN  S[Len(a)]

Compared == call.op \in {"compare", "compare3", "compare4"}
CallLen(n) == Len(call.args[1]) = n /\ Len(call.args[2]) = n

\* C11: compare(a, b) returns the sum over the channels of (a[i] - b[i])^2
\* for two tuples of equal length (27 for (1,2,3) and (4,5,6), 195075 for
\* (0,0,0) and (255,255,255)); compare3 on two 3-channel pixels and compare4
\* on two 4-channel pixels return what compare returns
C11_CompareSumOfSquares ==
    Compared =>
        LET a == call.args[1]
            b == call.args[2]
        IN  /\ call.op = "compare" /\ Len(a) = Len(b) =>
                /\ call.err = "none"
                /\ call.ret = SumOfSquares(a, b)
                /\ a = <<1, 2, 3>> /\ b = <<4, 5, 6>> => call.ret = 27
                /\ a = <<0, 0, 0>> /\ b = <<255, 255, 255>> => call.ret = 195075
                /\ a = <<0, 0>> /\ b = <<3, 4>> => call.ret = 25
            /\ call.op = "compare3" /\ CallLen(3) =>
                /\ call.err = "none"
                /\ call.ret = SumOfSquares(a, b)
                /\ Ok(call.ret) = Compare(a, b)
            /\ call.op = "compare4" /\ CallLen(4) =>
                /\ call.err = "none"
                /\ call.ret = SumOfSquares(a, b)
                /\ Ok(call.ret) = Compare(a, b)

\* compare4 has returned the distance of two pixels that differ in alpha only
C11_Witness ==
    /\ call.op = "compare4"
    /\ call.args = << <<0, 0, 0, 0>>, <<0, 0, 0, 255>> >>
    /\ call.ret = 65025

\* C12: for pixels p, a, b of equal channel count compare(p, p) = 0,
\* compare(a, b) = compare(b, a) and compare(a, b) >= 0; the same for
\* compare3 on 3-channel and compare4 on 4-channel pixels
C12_CompareMetric ==
    Compared /\ Len(call.args[1]) = Len(call.args[2])
             /\ (call.op = "compare3" => CallLen(3))
             /\ (call.op = "compare4" => CallLen(4)) =>
        LET a == call.args[1]
            b == call.args[2]
            c == IF call.op = "compare3" THEN 3
                 ELSE IF call.op = "compare4" THEN 4 ELSE 0
        IN  /\ call.err = "none"
            /\ call.ret >= 0
            /\ a = b => call.ret = 0
            /\ CallComp(c, b, a) = Ok(call.ret)
            /\ CallComp(c, a, a) = Ok(0)

\* compare3 has returned a positive distance for two different pixels
C12_Witness ==
    /\ call.op = "compare3"
    /\ call.args = << <<0, 1, 255>>, <<1, 0, 0>> >>
    /\ call.ret = 65027

\* the source pixel scored last, and whether its score stands in choices
\* with the target as compareRegion saw it
LastScored == ScanLoc(source, ci)
Scored == pc \in {"score", "setPixel"} /\ ci >= 1 /\ Len(choices) = ci

\* the sum over the offsets o of region of comp(source pixel at cen1 + o,
\* target pixel at cen2 + o)
RegionSum(cen1, cen2, region) ==
    LET d(o) == CallComp(comp,
                         source.pixels[<<cen1[1] + o[1], cen1[2] + o[2]>>],
                         target.pixels[<<cen2[1] + o[1], cen2[2] + o[2]>>]).val
        S[i \in 0..Len(region)] ==
            IF i = 0 THEN 0 ELSE S[i - 1] + d(region[i])
    IN  S[Len(region)]

\* C13: compareRegion returns +infinity for an empty region; for any other
\* region it returns the sum over the offsets o of comp(tex1.getPixel(cen1 +
\* o), tex2.getPixel(cen2 + o)) divided by len(region)
C13_CompareRegionMean ==
    Scored =>
        LET weight == choices[ci].weight
        IN  IF Len(nearest) = 0 THEN weight.inf
            ELSE /\ ~weight.inf
                 /\ weight.num * Len(nearest)
                       = RegionSum(LastScored, tloc, nearest) * weight.den

\* a region of three offsets whose distances add up to no multiple of three
\* has scored their mean, a fraction
C13_Witness ==
    /\ Scored
    /\ Len(nearest) = 3
    /\ ~choices[ci].weight.inf
    /\ choices[ci].weight.den = 3
    /\ choices[ci].weight.num % 3 # 0

\* the empty region has scored +infinity
C13_WitnessEmpty ==
    /\ Scored
    /\ Len(nearest) = 0
    /\ choices[ci].weight.inf

\* the grid before the call, its locations, and the position a call names
Before == call.before
BeforeLocs == Locs(Before.w, Before.h)
CalledAt == <<call.args.loc[1] + call.args.shift[1],
              call.args.loc[2] + call.args.shift[2]>>

\* C14: setValid(loc) fails with an out-of-range error for every loc
\* outside the grid, negative coordinates included, and then changes no
\* validity flag; for a loc inside the grid it sets the flag of loc, and
\* changes nothing when that flag is set already
C14_SetValidChecksRange ==
    call.op = "setValid" =>
        IF call.args.loc \in BeforeLocs
        THEN /\ call.err = "none"
             /\ target.valid[call.args.loc]
             /\ Before.valid[call.args.loc] => target = Before
        ELSE /\ call.err # "none"
             /\ target.valid = Before.valid

\* C15: getPixel(loc, shift) and setPixel(value, loc, shift) fail when
\* loc + shift lies outside [0, width) x [0, height), setPixel fails when
\* len(value) differs from bpp, and a failing call changes no pixel and no
\* validity flag; after a setPixel that succeeded, getPixel at the same
\* position returns the value
C15_PixelAccessChecked ==
    /\ call.op = "getPixel" =>
          IF CalledAt \in BeforeLocs
          THEN call.err = "none" /\ call.ret = Before.pixels[CalledAt]
          ELSE /\ call.err # "none"
               /\ target.pixels = Before.pixels
               /\ target.valid = Before.valid
    /\ call.op = "setPixel" =>
          IF CalledAt \in BeforeLocs /\ Len(call.args.value) = Before.bpp
          THEN /\ call.err = "none"
               /\ TextureGetPixel(target, call.args.loc, call.args.shift)
                     = [err |-> "none", val |-> call.args.value]
               /\ TextureGetPixel(target, CalledAt, <<0, 0>>)
                     = [err |-> "none", val |-> call.args.value]
          ELSE /\ call.err # "none"
               /\ target.pixels = Before.pixels
               /\ target.valid = Before.valid

\* setPixel has failed on a value of the wrong length at a position inside
\* the grid and has left the grid alone
C15_Witness ==
    /\ call.op = "setPixel"
    /\ CalledAt \in BeforeLocs
    /\ call.args.shift # <<0, 0>>
    /\ Len(call.args.value) # Before.bpp
    /\ call.err = "AssertionError"
    /\ target = Before

\* setPixel has replaced a pixel, getPixel has failed outside the grid
C15_WitnessSet ==
    /\ call.op = "setPixel"
    /\ call.err = "none"
    /\ target.pixels # Before.pixels

C15_WitnessGet ==
    /\ call.op = "getPixel"
    /\ call.args.loc \in BeforeLocs
    /\ CalledAt \notin BeforeLocs
    /\ call.err = "AssertionError"

\* the bytes of pixel number k (0-based) of a flat buffer of bpp-byte pixels
FlatPixel(bytes, k, bpp) == [i \in 1..bpp |-> bytes[k * bpp + i]]

\* C16: a Texture built from a decoded byte buffer and serialised by toImage
\* with no setPixel in between gives back the buffer, the size and the mode;
\* pixel (x, y) of the grid is pixel number x + y*width of the buffer read
\* and of the buffer written
C16_RoundTrip ==
    call.op = "toImage" =>
        \A image \in ApiImages :
            Before = Texture(image) =>
                /\ call.err = "none"
                /\ call.ret = image
                /\ \A loc \in BeforeLocs :
                      /\ Before.pixels[loc]
                            = FlatPixel(image.bytes, loc[1] + loc[2] * image.w,
                                        Before.bpp)
                      /\ Before.pixels[loc]
                            = FlatPixel(call.ret.bytes,
                                        loc[1] + loc[2] * image.w, Before.bpp)

\* a 2 x 2 image whose columns differ has made the round trip
C16_Witness ==
    /\ call.op = "toImage"
    /\ Before.class = "Texture"
    /\ Before.w = 2 /\ Before.h = 2
    /\ Before.pixels[<<1, 0>>] # Before.pixels[<<0, 1>>]
    /\ call.ret.bytes = Pattern(Before.mode, 2, 2, 1, 0, 0).bytes

\* compareRegion has been called for a source pixel: it returned (Scored),
\* or it raised and ended expand before the source pixel was counted
RegionFailed == pc = "failed" /\ ci < SPoints
RegionCentre == IF RegionFailed THEN sloc ELSE LastScored

\* C17: every offset o that expand passes to compareRegion for the source
\* pixel s and the target pixel t is such that s + o lies inside the source
\* on a valid pixel and t + o lies inside the target on a valid pixel; so
\* no getPixel of expand fails its assertion
C17_RegionAddressable ==
    /\ Scored \/ RegionFailed =>
          \A i \in 1..Len(nearest) :
              /\ KeepShift(source, RegionCentre, source.valid, nearest[i])
              /\ KeepShift(target, tloc, target.valid, nearest[i])
              /\ TextureGetPixel(source, RegionCentre, nearest[i]).err = "none"
              /\ TextureGetPixel(target, tloc, nearest[i]).err = "none"
    /\ RegionFailed => err # "AssertionError"
    /\ Scored => TextureGetPixel(source, LastScored, <<0, 0>>).err = "none"

\* a region that is not empty, trimmed around the target pixel and again
\* around the source pixel, has been scored on a target filled from blank
C17_Witness ==
    /\ Scored
    /\ target.class = "EmptyTexture"
    /\ Len(nearest) >= 1
    /\ Len(nearest) < Len(nearer)
    /\ Len(nearer) < Len(near.shift)

\* a run that fills a blank target with the causal-ell shape
Generative == target.class = "EmptyTexture" /\ near.class = "EllShape"

\* the number of target pixels that precede loc in the row-major scan
ScanIndex(loc) == loc[1] + loc[2] * target.w

\* C18: in a generative run the valid target pixels are, whenever expand
\* works on the target pixel t, exactly the pixels that precede t in
\* row-major scan order; so the context computed at t is the set of all
\* EllShape offsets o with t + o inside the target, and t is not in it
C18_CausalContext ==
    Generative =>
        /\ \A loc \in TargetLocs : target.valid[loc] <=> ScanIndex(loc) < ti - 1
        /\ Running =>
              /\ ScanIndex(tloc) = ti - 1
              /\ ShiftSet(nearer)
                    = {o \in ShiftSet(near.shift) : InBounds(target, tloc, o)}
              /\ Len(nearer) = Cardinality(ShiftSet(nearer))
              /\ <<0, 0>> \notin ShiftSet(nearer)

\* the last pixel of a 2 x 2 blank target has the three pixels before it as
\* its context
C18_Witness ==
    /\ Generative
    /\ pc = "score"
    /\ target.w = 2 /\ target.h = 2
    /\ ti = 4
    /\ nearer = << <<-1, -1>>, <<0, -1>>, <<-1, 0>> >>

\* the values of the source pixels, and the colour of a blank target pixel
SourceValues == {source.pixels[loc] : loc \in SourceLocs}
Blank == [i \in 1..target.bpp |-> 0]

\* expand stands between two target pixels, or has returned
AtBoundary == pc \in {"pixel", "done"}

\* every valid target pixel holds a value of some source pixel; between two
\* target pixels the valid pixels are the first ti - 1 of the scan and the
\* others are blank
CommittedPrefix ==
    Generative =>
        /\ \A loc \in TargetLocs :
              target.valid[loc] => target.pixels[loc] \in SourceValues
        /\ AtBoundary =>
              \A loc \in TargetLocs :
                  IF ScanIndex(loc) < ti - 1
                  THEN target.valid[loc] /\ target.pixels[loc] \in SourceValues
                  ELSE ~target.valid[loc] /\ target.pixels[loc] = Blank

\* a step clears no flag and leaves the value of a valid pixel alone; the
\* step that raises the flag of a pixel is setValid, and finds the value
\* picked for the pixel written already
CommitStep ==
    Generative =>
        \A loc \in TargetLocs :
            /\ target.valid[loc] =>
                  target'.valid[loc] /\ target'.pixels[loc] = target.pixels[loc]
            /\ ~target.valid[loc] /\ target'.valid[loc] =>
                  /\ pc = "setValid"
                  /\ loc = tloc
                  /\ target.pixels[loc] = newval
                  /\ target'.pixels[loc] = newval
            /\ target'.pixels[loc] # target.pixels[loc] =>
                  pc = "setPixel" /\ loc = tloc /\ ~target.valid[loc]

\* C19: expand writes the value of a target pixel with setPixel before it
\* raises its flag with setValid and never clears a flag: in a generative
\* run a valid target pixel holds its final value, a value of some source
\* pixel, and at every boundary between two target pixels the valid pixels
\* are a prefix of the scan and the other pixels are invalid and blank
C19_CommitOrder == []CommittedPrefix /\ [][CommitStep]_vars

\* the second pixel of a blank target is written, its flag is not raised
\* yet, and the first pixel is committed
C19_Witness ==
    /\ Generative
    /\ pc = "setValid"
    /\ ti = 2
    /\ target.pixels[tloc] = newval
    /\ ~target.valid[tloc]
    /\ target.valid[<<0, 0>>]
    /\ target.pixels[<<0, 0>>] # Blank

\* C20: setPixel changes the pixel value at the position it names and no
\* other pixel value and no validity flag; setValid(loc) changes the flag of
\* loc and no other flag and no pixel value; getPixel, goodList and _locTest
\* change nothing; on grids built by Texture and by EmptyTexture alike
C20_FrameEffect ==
    /\ call.op = "setPixel" =>
          /\ \A loc \in BeforeLocs :
                loc # CalledAt => target.pixels[loc] = Before.pixels[loc]
          /\ target.valid = Before.valid
    /\ call.op = "setValid" =>
          /\ target.pixels = Before.pixels
          /\ \A loc \in BeforeLocs :
                loc # call.args.loc => target.valid[loc] = Before.valid[loc]
    /\ call.op \in {"getPixel", "goodList", "_locTest"} => target = Before

\* a step of expand leaves the source grid alone; a step taken at the head
\* of the loop or while the candidates of tloc are scored and the least is
\* picked leaves the pixels and the flags of the target alone; the step of
\* setPixel changes at most the pixel at tloc, the step of setValid at most
\* the flag of tloc
ReadOnlyStep ==
    /\ source' = source
    /\ pc \in {"pixel", "score"} =>
          target'.pixels = target.pixels /\ target'.valid = target.valid
    /\ target'.pixels # target.pixels =>
          /\ pc = "setPixel"
          /\ \A loc \in TargetLocs \ {tloc} :
                target'.pixels[loc] = target.pixels[loc]
    /\ target'.valid # target.valid =>
          /\ pc = "setValid"
          /\ \A loc \in TargetLocs \ {tloc} :
                target'.valid[loc] = target.valid[loc]

\* C21: expand never modifies the source grid, a grid distinct from the
\* target: its pixels and flags are after every step what they were before
\* it; while the candidates for one target pixel are scored the target is
\* not modified either, the only writes to the target being the setPixel
\* and the setValid at the current target pixel once the winner is chosen
C21_SourceReadOnly == [][ReadOnlyStep]_vars

\* the candidates of the second pixel of a target image are being scored,
\* the first pixel having been given a value of the source that it did not
\* have
C21_Witness ==
    /\ pc = "score"
    /\ ti = 2
    /\ ci >= 1 /\ ci < SPoints
    /\ target.class = "Texture"
    /\ target.pixels[<<0, 0>>] \in SourceValues
    /\ \E image \in TargetImages :
          /\ target.w = image.w /\ target.h = image.h /\ target.mode = image.mode
          /\ \A loc \in TargetLocs \ {<<0, 0>>} :
                target.pixels[loc] = Texture(image).pixels[loc]
          /\ target.pixels[<<0, 0>>] # Texture(image).pixels[<<0, 0>>]

====
